---------------------------- MODULE Spec2Model ----------------------------
(***************************************************************************)
(* ConnectivityService of Am-I-Online                                      *)
(* (src/src/app/services/connectivity.service.ts).                         *)
(*                                                                         *)
(* The service is a singleton living on the JavaScript event loop.  Every  *)
(* call of the async method checkConnectivity() runs synchronously up to   *)
(* its first `await this.checkEndpoint(endpoint)`, is suspended there, and *)
(* is resumed in a later task when the awaited promise settles.  One       *)
(* action of this model is one such run-to-completion block, so the        *)
(* interleavings of the model are the interleavings of the event loop.     *)
(*                                                                         *)
(* `T | null` fields are modelled as sequences: <<>> is null, <<v>> is v.  *)
(* Time is counted in half milliseconds so that Math.round has something   *)
(* to round.                                                               *)
(***************************************************************************)
EXTENDS Integers, Sequences, FiniteSets

(* ------------------------------ bounds --------------------------------- *)

\* calls of checkConnectivity() explored from a start state
MaxChecks == 2

\* calls of checkConnectivity() that may be suspended at the same time
MaxInFlight == 2

\* last instant of the clock, in half milliseconds
MaxTime == 2

(* ----------------------- constants of the program ---------------------- *)

\* addToHistory: newHistory.slice(-100)
HistoryLimit == 100

\* getRecentHistory: slice(-10)
RecentLimit == 10

Null == <<>>

Some(v) == <<v>>

AllFailedMessage == "All connectivity endpoints failed"

\* a url, split at "://" into its scheme and the rest
Url(scheme, address) == [scheme |-> scheme, address |-> address]

\* #endpoints, in declared order (the url is where fetch is sent, the
\* timeout is the delay in ms after which the attempt is aborted)
endpoints ==
  << [name |-> "Google", url |-> Url("http", "google.com/generate_204"),
      expectedStatus |-> {200, 204}, timeout |-> 3000],
     [name |-> "Cloudflare",
      url |-> Url("http", "cp.cloudflare.com/generate_204"),
      expectedStatus |-> {200, 204}, timeout |-> 3000],
     [name |-> "Microsoft",
      url |-> Url("http", "edge-http.microsoft.com/captiveportal/generate_204"),
      expectedStatus |-> {200, 204}, timeout |-> 3000],
     [name |-> "Ubuntu", url |-> Url("http", "connectivity-check.ubuntu.com"),
      expectedStatus |-> {200}, timeout |-> 3000] >>

(* ----------------------------- the network ----------------------------- *)

\* What fetch() can settle with: a response that is opaque (mode no-cors),
\* a response with a readable status, a transport error, or the abort
\* raised by the timeout's AbortController.
Statuses == {200, 204, 500}

Responses ==
  {[kind |-> "opaque", status |-> 0]}
    \cup {[kind |-> "basic", status |-> s] : s \in Statuses}
    \cup {[kind |-> "error", status |-> 0], [kind |-> "abort", status |-> 0]}

\* checkEndpoint that takes any response for a success
checkEndpoint_AnyResponse(endpoint, r) == r.kind \notin {"error", "abort"}

\* checkEndpoint: TRUE when the returned promise resolves, FALSE when it
\* rejects
checkEndpoint(endpoint, r) ==
  IF r.kind \in {"error", "abort"} THEN FALSE
  ELSE IF r.kind = "opaque" THEN TRUE
  ELSE r.status \in endpoint.expectedStatus

(* ------------------------------- state --------------------------------- *)

VARIABLES
  isOnline,          \* #isOnline
  lastChecked,       \* #lastChecked       (Date | null, in ms)
  responseTime,      \* #responseTime      (number | null)
  currentEndpoint,   \* #currentEndpoint   (string | null)
  error,             \* #error             (string | null)
  isChecking,        \* #isChecking
  totalChecks,       \* #totalChecks
  successfulChecks,  \* #successfulChecks
  connectionHistory, \* #connectionHistory
  minResponseTime,   \* #minResponseTime   (number | null)
  maxResponseTime,   \* #maxResponseTime   (number | null)
  calls,             \* the suspended calls of checkConnectivity()
  now,               \* the clock, in half milliseconds
  location           \* window.location: protocol and hostname of the page

signals ==
  << isOnline, lastChecked, responseTime, currentEndpoint, error, isChecking,
     totalChecks, successfulChecks, connectionHistory, minResponseTime,
     maxResponseTime >>

vars == << signals, calls, now, location >>

\* A slot of `calls` is either free or holds one suspended call: its
\* local startTime, the position of its `for (const endpoint of ...)`, and
\* the promise it awaits (pending, or settled with the response fetch
\* produced and not yet resumed).
Slots == 1..MaxInFlight

NoResponse == [kind |-> "none", status |-> 0]

Free == [startTime |-> 0, index |-> 0, settled |-> "none",
         response |-> NoResponse]

InFlight == { c \in Slots : calls[c] # Free }

\* No continuation is queued: the microtask queue is empty, so the event
\* loop may run its next task.
Quiet == \A c \in Slots : calls[c].settled \in {"none", "pending"}

\* new Date(): the wall clock in whole milliseconds
Date == now \div 2

\* Math.round(endTime - startTime), both read from performance.now()
\* (Math.round rounds a half up)
RoundedElapsed(startTime, endTime) == (endTime - startTime + 1) \div 2

\* window.location of a page served over https from a host other than
\* localhost
SecurePage == [protocol |-> "https:", hostname |-> "example.org"]

(* ------------------------------ helpers -------------------------------- *)

\* the #minResponseTime updater with `!current` in place of
\* `current === null`: a minimum of 0 is taken for no minimum
UpdateMin_Falsy(current, rt) ==
  IF current = Null \/ current = Some(0) \/ rt < current[1]
    THEN Some(rt) ELSE current

\* updateResponseTimeTracking, the #minResponseTime updater
UpdateMin(current, rt) ==
  IF current = Null \/ rt < current[1] THEN Some(rt) ELSE current

\* updateResponseTimeTracking, the #maxResponseTime updater
UpdateMax(current, rt) ==
  IF current = Null \/ rt > current[1] THEN Some(rt) ELSE current

\* slice(0, n) in place of slice(-n): the oldest n records are kept
SliceLast_KeepsOldest(s, n) ==
  IF Len(s) <= n THEN s ELSE SubSeq(s, 1, n)

\* Array.prototype.slice(-n): the last n elements, all of them when fewer
SliceLast(s, n) ==
  IF Len(s) <= n THEN s ELSE SubSeq(s, Len(s) - n + 1, Len(s))

\* addToHistory without the slice
addToHistory_Unbounded(history, record) == history \o << record >>

\* addToHistory
addToHistory(history, record) ==
  LET newHistory == history \o << record >>
  IN  SliceLast(newHistory, HistoryLimit)

SuccessRecord(rt, name) ==
  [timestamp |-> Date, isOnline |-> TRUE, responseTime |-> Some(rt),
   endpoint |-> Some(name), error |-> Null]

\* the failure record names the endpoint that was tried last
FailureRecord_NamesEndpoint ==
  [timestamp |-> Date, isOnline |-> FALSE, responseTime |-> Null,
   endpoint |-> currentEndpoint, error |-> Some(AllFailedMessage)]

FailureRecord ==
  [timestamp |-> Date, isOnline |-> FALSE, responseTime |-> Null,
   endpoint |-> Null, error |-> Some(AllFailedMessage)]

\* the ConnectivityStatus returned from the try block
SuccessStatus(rt, name) ==
  [isOnline |-> TRUE, lastChecked |-> Some(Date), responseTime |-> Some(rt),
   endpoint |-> Some(name), error |-> Null]

\* the ConnectivityStatus returned from the "all endpoints failed" block
FailureStatus ==
  [isOnline |-> FALSE, lastChecked |-> Some(Date), responseTime |-> Null,
   endpoint |-> Null, error |-> Some(AllFailedMessage)]

(* ------------------------------ start states --------------------------- *)

\* the constructor stamps lastChecked
Init_Stamped ==
  /\ isOnline \in BOOLEAN
  /\ lastChecked = Some(0)
  /\ responseTime = Null
  /\ currentEndpoint = Null
  /\ error = Null
  /\ isChecking = FALSE
  /\ totalChecks = 0
  /\ successfulChecks = 0
  /\ connectionHistory = << >>
  /\ minResponseTime = Null
  /\ maxResponseTime = Null
  /\ calls = [c \in Slots |-> Free]
  /\ now = 0
  /\ location = SecurePage

\* The state the constructor leaves: the signals' initial values, the
\* listeners registered, the timer subscribed and its first tick pending.
Init ==
  /\ isOnline \in BOOLEAN
  /\ lastChecked = Null
  /\ responseTime = Null
  /\ currentEndpoint = Null
  /\ error = Null
  /\ isChecking = FALSE
  /\ totalChecks = 0
  /\ successfulChecks = 0
  /\ connectionHistory = << >>
  /\ minResponseTime = Null
  /\ maxResponseTime = Null
  /\ calls = [c \in Slots |-> Free]
  /\ now = 0
  /\ location = SecurePage

\* calls made before the start state of a long-running service
WarmChecks == HistoryLimit - 1

\* response time of the first call of the long-running service, in ms
WarmResponseTime == 5

\* The state of a service that has made WarmChecks calls: the first one
\* returned online from the first endpoint after WarmResponseTime ms, all
\* later ones returned from the "all endpoints failed" block.  The history
\* is one record short of HistoryLimit.  The clock is read from this state
\* on, so the stamps of the earlier records show as 0.
InitWarm ==
  /\ isOnline = FALSE
  /\ lastChecked = Some(0)
  /\ responseTime = Null
  /\ currentEndpoint = Some(endpoints[Len(endpoints)].name)
  /\ error = Some(AllFailedMessage)
  /\ isChecking = FALSE
  /\ totalChecks = WarmChecks
  /\ successfulChecks = 1
  /\ connectionHistory =
       [i \in 1..WarmChecks |->
          IF i = 1
            THEN [timestamp |-> 0, isOnline |-> TRUE,
                  responseTime |-> Some(WarmResponseTime),
                  endpoint |-> Some(endpoints[1].name), error |-> Null]
            ELSE [timestamp |-> 0, isOnline |-> FALSE, responseTime |-> Null,
                  endpoint |-> Null, error |-> Some(AllFailedMessage)]]
  /\ minResponseTime = Some(WarmResponseTime)
  /\ maxResponseTime = Some(WarmResponseTime)
  /\ calls = [c \in Slots |-> Free]
  /\ now = 0
  /\ location = SecurePage

\* calls made, and calls among them that returned online, before the
\* start state of a service some twenty minutes into its run
MidwayChecks == 39
MidwaySuccessful == 22

\* response time of those successful calls, in ms
MidwayResponseTime == 1

\* The state of a service that has made MidwayChecks calls: the first
\* MidwaySuccessful of them returned online from the first endpoint, the
\* later ones returned from the "all endpoints failed" block.  The clock
\* is read from this state on.
InitMidway ==
  /\ isOnline = FALSE
  /\ lastChecked = Some(0)
  /\ responseTime = Null
  /\ currentEndpoint = Some(endpoints[Len(endpoints)].name)
  /\ error = Some(AllFailedMessage)
  /\ isChecking = FALSE
  /\ totalChecks = MidwayChecks
  /\ successfulChecks = MidwaySuccessful
  /\ connectionHistory =
       [i \in 1..MidwayChecks |->
          IF i <= MidwaySuccessful
            THEN [timestamp |-> 0, isOnline |-> TRUE,
                  responseTime |-> Some(MidwayResponseTime),
                  endpoint |-> Some(endpoints[1].name), error |-> Null]
            ELSE [timestamp |-> 0, isOnline |-> FALSE, responseTime |-> Null,
                  endpoint |-> Null, error |-> Some(AllFailedMessage)]]
  /\ minResponseTime = Some(MidwayResponseTime)
  /\ maxResponseTime = Some(MidwayResponseTime)
  /\ calls = [c \in Slots |-> Free]
  /\ now = 0
  /\ location = SecurePage

(* ------------------------------ accessors ------------------------------ *)

\* getEndpoints() hands out the endpoints that have not been tried yet
getEndpoints_Remaining ==
  LET tried == IF currentEndpoint = Null THEN 0
               ELSE CHOOSE i \in 1..Len(endpoints) :
                      endpoints[i].name = currentEndpoint[1]
  IN  SubSeq(endpoints, tried + 1, Len(endpoints))

\* getEndpoints(): [...this.#endpoints], a new array of the same elements
getEndpoints == [i \in 1..Len(endpoints) |-> endpoints[i]]

\* Array.prototype.reverse: the elements in the opposite order (the array
\* it is called on is reversed in place and returned)
Reverse(s) == [i \in 1..Len(s) |-> s[Len(s) - i + 1]]

\* as getRecentHistory, with reverse() called on the array of the signal
\* and the slice taken afterwards
getRecentHistory_InPlace ==
  LET reversed == Reverse(connectionHistory)
  IN  [returned |-> SliceLast_KeepsOldest(reversed, RecentLimit),
       history  |-> reversed]

\* getRecentHistory(): slice(-10) copies the last records into a new array
\* and reverse() reverses that copy.  `returned` is the array handed to the
\* caller, `history` the array #connectionHistory holds after the call.
getRecentHistory ==
  LET copy == SliceLast(connectionHistory, RecentLimit)
  IN  [returned |-> Reverse(copy),
       history  |-> connectionHistory]

\* getCurrentEndpointInfo(): `!current` holds for null (and would for an
\* empty name; no endpoint has one)
getCurrentEndpointInfo ==
  LET current == currentEndpoint
  IN  IF current = Null \/ current = Some("")
        THEN [protocol |-> "N/A", port |-> "N/A"]
        ELSE [protocol |-> "HTTPS", port |-> "443"]

(* --------------------------- computed signals -------------------------- *)

\* JavaScript truthiness of a number | null: null and 0 are falsy
Truthy(v) == v # Null /\ v[1] # 0

\* r.responseTime || 0
OrZero(v) == IF Truthy(v) THEN v[1] ELSE 0

\* reduce((sum, r) => sum + (r.responseTime || 0), 0)
RECURSIVE SumResponseTime(_)
SumResponseTime(records) ==
  IF records = << >> THEN 0
  ELSE OrZero(Head(records).responseTime) + SumResponseTime(Tail(records))

\* Math.round(n / d) for integers n >= 0 and d > 0: the nearest integer,
\* a half rounded up.  The quotient of two such integers below 2^53 lies
\* on a half only when it is that half exactly, so the double division is
\* as good as the exact one.
RoundedQuotient(n, d) == (2 * n + d) \div (2 * d)

\* A positive IEEE-754 double is kept as its 53 significant bits, most
\* significant first and starting with 1, and a binary exponent: the
\* value is 0.b1 b2 ... b53 (binary) times 2^exp.
Precision == 53

Zero == [bits |-> << >>, exp |-> 0]

\* a bit string given digit by digit, as the sequence of its digits
Digits(f) == SubSeq(f, 1, Len(f))

\* 2^i modulo m
RECURSIVE PowerOfTwoMod(_, _)
PowerOfTwoMod(i, m) ==
  IF i = 0 THEN 1 % m
  ELSE LET h == PowerOfTwoMod(i \div 2, m)
       IN  (h * h * (IF i % 2 = 1 THEN 2 ELSE 1)) % m

\* what is left of num/den, for num < den, below its first i binary
\* digits after the point, as a numerator over den
Remainder(num, den, i) == (num * PowerOfTwoMod(i, den)) % den

\* the i-th binary digit of num/den after the point, for num < den
Digit(num, den, i) ==
  IF 2 * Remainder(num, den, i - 1) >= den THEN 1 ELSE 0

\* the bit string plus one in its last place, and the carry out of it
Increment(bits) ==
  LET n == Len(bits)
  IN  IF \A i \in 1..n : bits[i] = 1
        THEN [bits |-> Digits([i \in 1..n |-> 0]), carry |-> 1]
        ELSE LET z == CHOOSE i \in 1..n :
                        bits[i] = 0 /\ \A j \in (i + 1)..n : bits[j] = 1
             IN  [bits |-> Digits([i \in 1..n |->
                                     IF i < z THEN bits[i]
                                     ELSE IF i = z THEN 1 ELSE 0]),
                  carry |-> 0]

\* Round to nearest, ties to even: the double nearest to 0.bits * 2^exp,
\* where bits starts with 1 and has more than Precision digits, and sticky
\* tells that the exact value has nonzero digits beyond them.
RoundToDouble(bits, exp, sticky) ==
  LET kept == SubSeq(bits, 1, Precision)
      guard == bits[Precision + 1]
      below == sticky \/ \E i \in (Precision + 2)..Len(bits) : bits[i] = 1
      up == guard = 1 /\ (below \/ kept[Precision] = 1)
      inc == Increment(kept)
  IN  IF ~ up THEN [bits |-> kept, exp |-> exp]
      ELSE IF inc.carry = 1
        THEN [bits |-> << 1 >> \o SubSeq(inc.bits, 1, Precision - 1),
              exp |-> exp + 1]
        ELSE [bits |-> inc.bits, exp |-> exp]

\* num / den = x * 2^exp with 1/2 <= x < 1
RECURSIVE Normalise(_, _, _)
Normalise(num, den, exp) ==
  IF num >= den THEN Normalise(num, 2 * den, exp + 1)
  ELSE IF 2 * num < den THEN Normalise(2 * num, den, exp - 1)
  ELSE [num |-> num, den |-> den, exp |-> exp]

\* the double a / b of two integers a >= 0, b > 0
Divide(a, b) ==
  IF a = 0 THEN Zero
  ELSE LET n == Normalise(a, b, 0)
       IN  RoundToDouble(Digits([i \in 1..(Precision + 1) |->
                                   Digit(n.num, n.den, i)]),
                         n.exp,
                         Remainder(n.num, n.den, Precision + 1) # 0)

\* the bit string with zeros in front to make it n digits long
PadTo(bits, n) ==
  Digits([i \in 1..n |->
            IF i <= n - Len(bits) THEN 0 ELSE bits[i - (n - Len(bits))]])

\* the bit string without its leading zeros
Strip(bits) ==
  IF \A i \in 1..Len(bits) : bits[i] = 0 THEN << >>
  ELSE LET f == CHOOSE i \in 1..Len(bits) :
                  bits[i] = 1 /\ \A j \in 1..(i - 1) : bits[j] = 0
       IN  SubSeq(bits, f, Len(bits))

\* the carry into digit i when adding two bit strings of the same length:
\* some lower digit generates a carry and every digit between passes it on
CarryInto(a, b, i) ==
  IF \E j \in (i + 1)..Len(a) :
       /\ a[j] + b[j] = 2
       /\ \A m \in (i + 1)..(j - 1) : a[m] + b[m] = 1
  THEN 1 ELSE 0

\* the sum of two numbers spelled as bit strings
Plus(x, y) ==
  LET n == IF Len(x) > Len(y) THEN Len(x) ELSE Len(y)
      a == PadTo(x, n + 1)
      b == PadTo(y, n + 1)
  IN  Strip(Digits([i \in 1..(n + 1) |->
                      (a[i] + b[i] + CarryInto(a, b, i)) % 2]))

\* the bit string of (the number bits spells) * k, for k > 0
RECURSIVE TimesDigits(_, _)
TimesDigits(bits, k) ==
  IF k = 1 THEN bits
  ELSE LET double == TimesDigits(bits, k \div 2) \o << 0 >>
       IN  IF k % 2 = 0 THEN double ELSE Plus(double, bits)

\* the double x * k of a double x and an integer k > 0
Times(x, k) ==
  IF x = Zero THEN Zero
  ELSE LET product == TimesDigits(x.bits, k)
       IN  RoundToDouble(product \o << 0 >>,
                         x.exp + Len(product) - Precision, FALSE)

\* the natural number the first n of bits spell
RECURSIVE Value(_, _)
Value(bits, n) ==
  IF n = 0 THEN 0 ELSE 2 * Value(bits, n - 1) + bits[n]

\* Math.round of a double 0 <= x < 2^31: floor(x + 0.5)
MathRound(x) ==
  IF x = Zero \/ x.exp < 0 THEN 0
  ELSE Value(x.bits, x.exp) + x.bits[x.exp + 1]

\* Math.round((successful / total) * 100) in double arithmetic
Percentage(successful, total) ==
  MathRound(Times(Divide(successful, total), 100))

\* the values totalChecks takes, from any of the start states, once a call
\* has been made
CheckCounts ==
  { t \in 1..(WarmChecks + MaxChecks) :
      \E first \in {0, MidwayChecks, WarmChecks} :
        first <= t /\ t <= first + MaxChecks }

\* Percentage for those counts, worked out once
Percentages ==
  [total \in CheckCounts |->
     [successful \in 0..total |-> Percentage(successful, total)]]

\* uptimePercentage with the operands of the division exchanged
uptimePercentage_Inverted ==
  LET total == totalChecks
      successful == successfulChecks
  IN  IF successful > 0 THEN RoundedQuotient(100 * total, successful) ELSE 0

\* the uptimePercentage computed signal
uptimePercentage ==
  LET total == totalChecks
      successful == successfulChecks
  IN  IF total > 0 THEN Percentages[total][successful] ELSE 0

\* successRate taken over the calls that have returned
successRate_OverReturned ==
  LET total == Len(connectionHistory)
      successful == successfulChecks
  IN  IF total > 0 THEN Percentages[total][successful] ELSE 0

\* the successRate computed signal
successRate ==
  LET total == totalChecks
      successful == successfulChecks
  IN  IF total > 0 THEN Percentages[total][successful] ELSE 0

\* the averageResponseTime computed signal
averageResponseTime ==
  LET onlineRecords ==
        SelectSeq(connectionHistory,
                  LAMBDA r : r.isOnline /\ Truthy(r.responseTime))
  IN  IF Len(onlineRecords) = 0 THEN 0
      ELSE RoundedQuotient(SumResponseTime(onlineRecords),
                           Len(onlineRecords))

(* ------------------------------- actions ------------------------------- *)

\* the exploration stops after MaxChecks calls from any of the start states
WithinBounds ==
  \/ totalChecks < MaxChecks
  \/ totalChecks >= MidwayChecks /\ totalChecks < MidwayChecks + MaxChecks
  \/ totalChecks >= WarmChecks /\ totalChecks < WarmChecks + MaxChecks

\* checkConnectivity that leaves the counting to the end of the call
checkConnectivity_NoCount ==
  /\ Quiet
  /\ WithinBounds
  /\ \E c \in Slots :
       /\ calls[c] = Free
       /\ \A d \in Slots : d < c => calls[d] # Free
       /\ calls' = [calls EXCEPT ![c] =
                      [startTime |-> now, index |-> 1, settled |-> "pending",
                       response |-> NoResponse]]
  /\ isChecking' = TRUE
  /\ error' = Null
  /\ currentEndpoint' = Some(endpoints[1].name)
  /\ UNCHANGED << isOnline, lastChecked, responseTime, totalChecks,
                  successfulChecks, connectionHistory, minResponseTime,
                  maxResponseTime, now, location >>

\* checkConnectivity() from its first statement to its first await: the
\* flags and the counter are written unconditionally, then the loop enters
\* its first iteration and suspends on checkEndpoint(endpoints[0]).
checkConnectivity ==
  /\ Quiet
  /\ WithinBounds
  /\ \E c \in Slots :
       /\ calls[c] = Free
       /\ \A d \in Slots : d < c => calls[d] # Free
       /\ calls' = [calls EXCEPT ![c] =
                      [startTime |-> now, index |-> 1, settled |-> "pending",
                       response |-> NoResponse]]
  /\ isChecking' = TRUE
  /\ error' = Null
  /\ totalChecks' = totalChecks + 1
  /\ currentEndpoint' = Some(endpoints[1].name)
  /\ UNCHANGED << isOnline, lastChecked, responseTime, successfulChecks,
                  connectionHistory, minResponseTime, maxResponseTime, now,
                  location >>

\* the timer stops ticking once a call has returned offline
Tick_UntilFailure ==
  /\ \A i \in 1..Len(connectionHistory) : connectionHistory[i].isOnline
  /\ checkConnectivity

\* manualCheck() declines to start while a call is in flight
manualCheck_Guarded ==
  /\ ~ isChecking
  /\ checkConnectivity

\* the timer callback skips the check while an error is published
Tick_UnlessError ==
  /\ error = Null
  /\ checkConnectivity

\* setupPeriodicChecks: a tick of timer(0, 30000)
Tick == checkConnectivity

\* manualCheck()
manualCheck == checkConnectivity

\* fetch() of the attempt of call c settles with r, and the then/catch
\* callbacks of checkEndpoint resolve or reject the awaited promise.
Settle(c, r) ==
  /\ Quiet
  /\ calls[c].settled = "pending"
  /\ calls' = [calls EXCEPT
                 ![c].response = r,
                 ![c].settled =
                   IF checkEndpoint(endpoints[calls[c].index], r)
                   THEN "resolved" ELSE "rejected"]
  /\ UNCHANGED << signals, now, location >>

\* the extrema are recomputed from the records the history still holds
EndpointSucceeds_WindowedExtrema(c) ==
  /\ calls[c].settled = "resolved"
  /\ LET endpoint == endpoints[calls[c].index]
         rt == RoundedElapsed(calls[c].startTime, now)
         window == addToHistory(connectionHistory,
                                SuccessRecord(rt, endpoint.name))
         times == { window[i].responseTime[1] :
                      i \in { j \in 1..Len(window) : window[j].isOnline } }
     IN  /\ minResponseTime' =
              Some(CHOOSE t \in times : \A u \in times : t <= u)
         /\ maxResponseTime' =
              Some(CHOOSE t \in times : \A u \in times : t >= u)
         /\ isOnline' = TRUE
         /\ lastChecked' = Some(Date)
         /\ responseTime' = Some(rt)
         /\ successfulChecks' = successfulChecks + 1
         /\ isChecking' = FALSE
         /\ connectionHistory' = window
  /\ calls' = [calls EXCEPT ![c] = Free]
  /\ UNCHANGED << currentEndpoint, error, totalChecks, now, location >>

\* the try block counts the check a second time
EndpointSucceeds_CountsAgain(c) ==
  /\ calls[c].settled = "resolved"
  /\ LET endpoint == endpoints[calls[c].index]
         rt == RoundedElapsed(calls[c].startTime, now)
     IN  /\ minResponseTime' = UpdateMin(minResponseTime, rt)
         /\ maxResponseTime' = UpdateMax(maxResponseTime, rt)
         /\ isOnline' = TRUE
         /\ lastChecked' = Some(Date)
         /\ responseTime' = Some(rt)
         /\ successfulChecks' = successfulChecks + 1
         /\ totalChecks' = totalChecks + 1
         /\ isChecking' = FALSE
         /\ connectionHistory' =
              addToHistory(connectionHistory, SuccessRecord(rt, endpoint.name))
  /\ calls' = [calls EXCEPT ![c] = Free]
  /\ UNCHANGED << currentEndpoint, error, now, location >>

\* the try block does not stamp lastChecked
EndpointSucceeds_NoStamp(c) ==
  /\ calls[c].settled = "resolved"
  /\ LET endpoint == endpoints[calls[c].index]
         rt == RoundedElapsed(calls[c].startTime, now)
     IN  /\ minResponseTime' = UpdateMin(minResponseTime, rt)
         /\ maxResponseTime' = UpdateMax(maxResponseTime, rt)
         /\ isOnline' = TRUE
         /\ responseTime' = Some(rt)
         /\ successfulChecks' = successfulChecks + 1
         /\ isChecking' = FALSE
         /\ connectionHistory' =
              addToHistory(connectionHistory, SuccessRecord(rt, endpoint.name))
  /\ calls' = [calls EXCEPT ![c] = Free]
  /\ UNCHANGED << lastChecked, currentEndpoint, error, totalChecks, now,
                  location >>

\* Call c is resumed after its awaited checkEndpoint resolved: the rest of
\* the try block, up to the return.
EndpointSucceeds(c) ==
  /\ calls[c].settled = "resolved"
  /\ LET endpoint == endpoints[calls[c].index]
         rt == RoundedElapsed(calls[c].startTime, now)
     IN  /\ minResponseTime' = UpdateMin(minResponseTime, rt)
         /\ maxResponseTime' = UpdateMax(maxResponseTime, rt)
         /\ isOnline' = TRUE
         /\ lastChecked' = Some(Date)
         /\ responseTime' = Some(rt)
         /\ successfulChecks' = successfulChecks + 1
         /\ isChecking' = FALSE
         /\ connectionHistory' =
              addToHistory(connectionHistory, SuccessRecord(rt, endpoint.name))
  /\ calls' = [calls EXCEPT ![c] = Free]
  /\ UNCHANGED << currentEndpoint, error, totalChecks, now, location >>

\* the catch block retries the endpoint that failed
EndpointFails_Retry(c) ==
  /\ calls[c].settled = "rejected"
  /\ calls[c].index < Len(endpoints)
  /\ currentEndpoint' = Some(endpoints[calls[c].index].name)
  /\ calls' = [calls EXCEPT ![c].settled = "pending",
                            ![c].response = NoResponse]
  /\ UNCHANGED << isOnline, lastChecked, responseTime, error, isChecking,
                  totalChecks, successfulChecks, connectionHistory,
                  minResponseTime, maxResponseTime, now, location >>

\* the catch block gives up on the first endpoint that fails
EndpointFails_Fatal(c) ==
  /\ calls[c].settled = "rejected"
  /\ calls[c].index < Len(endpoints)
  /\ isOnline' = FALSE
  /\ error' = Some(AllFailedMessage)
  /\ currentEndpoint' = Some(endpoints[calls[c].index + 1].name)
  /\ calls' = [calls EXCEPT ![c].index = @ + 1,
                            ![c].settled = "pending",
                            ![c].response = NoResponse]
  /\ UNCHANGED << lastChecked, responseTime, isChecking,
                  totalChecks, successfulChecks, connectionHistory,
                  minResponseTime, maxResponseTime, now, location >>

\* the catch block restarts the clock for the next endpoint
EndpointFails_RestartsClock(c) ==
  /\ calls[c].settled = "rejected"
  /\ calls[c].index < Len(endpoints)
  /\ currentEndpoint' = Some(endpoints[calls[c].index + 1].name)
  /\ calls' = [calls EXCEPT ![c].index = @ + 1,
                            ![c].startTime = now,
                            ![c].settled = "pending",
                            ![c].response = NoResponse]
  /\ UNCHANGED << isOnline, lastChecked, responseTime, error, isChecking,
                  totalChecks, successfulChecks, connectionHistory,
                  minResponseTime, maxResponseTime, now, location >>

\* Call c is resumed after its awaited checkEndpoint rejected and an
\* endpoint is left: catch, continue, the next iteration up to its await.
EndpointFails(c) ==
  /\ calls[c].settled = "rejected"
  /\ calls[c].index < Len(endpoints)
  /\ currentEndpoint' = Some(endpoints[calls[c].index + 1].name)
  /\ calls' = [calls EXCEPT ![c].index = @ + 1,
                            ![c].settled = "pending",
                            ![c].response = NoResponse]
  /\ UNCHANGED << isOnline, lastChecked, responseTime, error, isChecking,
                  totalChecks, successfulChecks, connectionHistory,
                  minResponseTime, maxResponseTime, now, location >>

\* the failure block counts the check a second time
AllEndpointsFailed_CountsAgain(c) ==
  /\ calls[c].settled = "rejected"
  /\ calls[c].index = Len(endpoints)
  /\ isOnline' = FALSE
  /\ lastChecked' = Some(Date)
  /\ responseTime' = Null
  /\ error' = Some(AllFailedMessage)
  /\ totalChecks' = totalChecks + 1
  /\ isChecking' = FALSE
  /\ connectionHistory' = addToHistory(connectionHistory, FailureRecord)
  /\ calls' = [calls EXCEPT ![c] = Free]
  /\ UNCHANGED << currentEndpoint, successfulChecks,
                  minResponseTime, maxResponseTime, now, location >>

\* the failure block keeps the response time of the last success
AllEndpointsFailed_KeepsResponseTime(c) ==
  /\ calls[c].settled = "rejected"
  /\ calls[c].index = Len(endpoints)
  /\ isOnline' = FALSE
  /\ lastChecked' = Some(Date)
  /\ error' = Some(AllFailedMessage)
  /\ isChecking' = FALSE
  /\ connectionHistory' = addToHistory(connectionHistory, FailureRecord)
  /\ calls' = [calls EXCEPT ![c] = Free]
  /\ UNCHANGED << responseTime, currentEndpoint, totalChecks,
                  successfulChecks, minResponseTime, maxResponseTime, now,
                  location >>

\* the failure block returns without resetting #isChecking
AllEndpointsFailed_LeavesChecking(c) ==
  /\ calls[c].settled = "rejected"
  /\ calls[c].index = Len(endpoints)
  /\ isOnline' = FALSE
  /\ lastChecked' = Some(Date)
  /\ responseTime' = Null
  /\ error' = Some(AllFailedMessage)
  /\ connectionHistory' = addToHistory(connectionHistory, FailureRecord)
  /\ calls' = [calls EXCEPT ![c] = Free]
  /\ UNCHANGED << isChecking, currentEndpoint, totalChecks, successfulChecks,
                  minResponseTime, maxResponseTime, now, location >>

\* the failure block starts the count of successes afresh
AllEndpointsFailed_ResetsSuccessful(c) ==
  /\ calls[c].settled = "rejected"
  /\ calls[c].index = Len(endpoints)
  /\ isOnline' = FALSE
  /\ lastChecked' = Some(Date)
  /\ responseTime' = Null
  /\ error' = Some(AllFailedMessage)
  /\ successfulChecks' = 0
  /\ isChecking' = FALSE
  /\ connectionHistory' = addToHistory(connectionHistory, FailureRecord)
  /\ calls' = [calls EXCEPT ![c] = Free]
  /\ UNCHANGED << currentEndpoint, totalChecks,
                  minResponseTime, maxResponseTime, now, location >>

\* Call c is resumed after the checkEndpoint of the last endpoint rejected:
\* catch, the loop ends, the "all endpoints failed" block up to the return.
AllEndpointsFailed(c) ==
  /\ calls[c].settled = "rejected"
  /\ calls[c].index = Len(endpoints)
  /\ isOnline' = FALSE
  /\ lastChecked' = Some(Date)
  /\ responseTime' = Null
  /\ error' = Some(AllFailedMessage)
  /\ isChecking' = FALSE
  /\ connectionHistory' = addToHistory(connectionHistory, FailureRecord)
  /\ calls' = [calls EXCEPT ![c] = Free]
  /\ UNCHANGED << currentEndpoint, totalChecks, successfulChecks,
                  minResponseTime, maxResponseTime, now, location >>

\* window 'online' listener
HostOnline ==
  /\ Quiet
  /\ isOnline' = TRUE
  /\ UNCHANGED << lastChecked, responseTime, currentEndpoint, error,
                  isChecking, totalChecks, successfulChecks,
                  connectionHistory, minResponseTime, maxResponseTime,
                  calls, now, location >>

\* the offline listener also publishes an offline check result
HostOffline_PublishesResult ==
  /\ Quiet
  /\ isOnline' = FALSE
  /\ lastChecked' = Some(Date)
  /\ responseTime' = Null
  /\ UNCHANGED << currentEndpoint, error,
                  isChecking, totalChecks, successfulChecks,
                  connectionHistory, minResponseTime, maxResponseTime,
                  calls, now, location >>

\* window 'offline' listener
HostOffline ==
  /\ Quiet
  /\ isOnline' = FALSE
  /\ UNCHANGED << lastChecked, responseTime, currentEndpoint, error,
                  isChecking, totalChecks, successfulChecks,
                  connectionHistory, minResponseTime, maxResponseTime,
                  calls, now, location >>

\* time passes between two tasks of the event loop
Advance ==
  /\ Quiet
  /\ now < MaxTime
  /\ now' = now + 1
  /\ UNCHANGED << signals, calls, location >>

Next ==
  \/ Tick
  \/ manualCheck
  \/ \E c \in Slots : \E r \in Responses : Settle(c, r)
  \/ \E c \in Slots : EndpointSucceeds(c)
  \/ \E c \in Slots : EndpointFails(c)
  \/ \E c \in Slots : AllEndpointsFailed(c)
  \/ HostOnline
  \/ HostOffline
  \/ Advance

Spec == Init /\ [][Next]_vars

SpecWarm == InitWarm /\ [][Next]_vars

SpecMidway == InitMidway /\ [][Next]_vars

\* What the event loop and the host guarantee.  The subscription to
\* timer(0, 30000) is never cancelled, so a tick that can run does run.
\* fetch() settles: with a response, with a transport error, or at the
\* latest with the abort that setTimeout(() => controller.abort(), 3000)
\* raises.  A continuation queued by a settled promise is run when the
\* microtask queue is drained.
Fairness ==
  /\ WF_vars(Tick)
  /\ \A c \in Slots :
       /\ WF_vars(\E r \in Responses : Settle(c, r))
       /\ WF_vars(EndpointSucceeds(c))
       /\ WF_vars(EndpointFails(c))
       /\ WF_vars(AllEndpointsFailed(c))

SpecFair == Init /\ [][Next]_vars /\ Fairness

(* ------------- the service with a fallback endpoint list --------------- *)

\* The copy of the service that keeps an https list and an http fallback
\* list, guards checkConnectivity() with isChecking and counts a check
\* when it returns.  It shares the signals, checkEndpoint, the history and
\* the listeners with the service above.

\* endpoints of that copy, in declared order
httpsEndpoints ==
  << [name |-> "Google",     expectedStatus |-> {200, 204}],
     [name |-> "Cloudflare", expectedStatus |-> {200, 204}],
     [name |-> "Microsoft",  expectedStatus |-> {200, 204}],
     [name |-> "Ubuntu",     expectedStatus |-> {200}],
     [name |-> "Apple",      expectedStatus |-> {200}],
     [name |-> "Mozilla",    expectedStatus |-> {200}] >>

\* fallbackEndpoints, in declared order
fallbackEndpoints ==
  << [name |-> "Google (HTTP)",     expectedStatus |-> {200, 204}],
     [name |-> "Cloudflare (HTTP)", expectedStatus |-> {200, 204}],
     [name |-> "Microsoft (HTTP)",  expectedStatus |-> {200, 204}],
     [name |-> "Ubuntu (HTTP)",     expectedStatus |-> {200}],
     [name |-> "Apple (HTTP)",      expectedStatus |-> {200}],
     [name |-> "Mozilla (HTTP)",    expectedStatus |-> {200}] >>

\* The index of a call of this copy counts its attempts through both
\* lists: 1..Len(httpsEndpoints) is tryEndpoints(endpoints), the positions
\* after that are tryEndpoints(fallbackEndpoints).
EndpointAt(i) ==
  IF i <= Len(httpsEndpoints) THEN httpsEndpoints[i]
  ELSE fallbackEndpoints[i - Len(httpsEndpoints)]

\* index of the last endpoint of the list that position i lies in
LastOfList(i) ==
  IF i <= Len(httpsEndpoints) THEN Len(httpsEndpoints)
  ELSE Len(httpsEndpoints) + Len(fallbackEndpoints)

\* the pages the service may be loaded from
Locations ==
  [protocol : {"https:", "http:"}, hostname : {"example.org", "localhost"}]

shouldTryHttpFallback ==
  location.protocol = "http:" \/ location.hostname = "localhost"

\* the state the constructor of that copy leaves
InitFallback ==
  /\ isOnline \in BOOLEAN
  /\ lastChecked = Null
  /\ responseTime = Null
  /\ currentEndpoint = Null
  /\ error = Null
  /\ isChecking = FALSE
  /\ totalChecks = 0
  /\ successfulChecks = 0
  /\ connectionHistory = << >>
  /\ minResponseTime = Null
  /\ maxResponseTime = Null
  /\ calls = [c \in Slots |-> Free]
  /\ now = 0
  /\ location \in Locations

\* checkConnectivity() of that copy, up to its first await: a call made
\* while isChecking returns the published status and writes nothing;
\* otherwise the flags are set and tryEndpoints(endpoints) suspends on the
\* first https endpoint.
GuardedCheckConnectivity ==
  /\ Quiet
  /\ WithinBounds
  /\ IF isChecking
       THEN UNCHANGED vars
       ELSE /\ \E c \in Slots :
                 /\ calls[c] = Free
                 /\ \A d \in Slots : d < c => calls[d] # Free
                 /\ calls' = [calls EXCEPT ![c] =
                                [startTime |-> now, index |-> 1,
                                 settled |-> "pending",
                                 response |-> NoResponse]]
            /\ isChecking' = TRUE
            /\ error' = Null
            /\ currentEndpoint' = Some(httpsEndpoints[1].name)
            /\ UNCHANGED << isOnline, lastChecked, responseTime, totalChecks,
                            successfulChecks, connectionHistory,
                            minResponseTime, maxResponseTime, now, location >>

\* setupPeriodicChecks of that copy: a tick calls checkConnectivity() only
\* if isChecking is false
GuardedTick ==
  IF isChecking THEN Quiet /\ UNCHANGED vars ELSE GuardedCheckConnectivity

\* manualCheck() of that copy
GuardedManualCheck == GuardedCheckConnectivity

\* fetch() of the attempt of call c settles with r
SettleAttempt(c, r) ==
  /\ calls[c].settled = "pending"
  /\ calls' = [calls EXCEPT
                 ![c].response = r,
                 ![c].settled =
                   IF checkEndpoint(EndpointAt(calls[c].index), r)
                   THEN "resolved" ELSE "rejected"]
  /\ UNCHANGED << signals, now, location >>

\* tryEndpoints is resumed after checkEndpoint resolved, returns the
\* online status, and checkConnectivity counts the check and returns it
TryEndpointsSucceeds(c) ==
  /\ calls[c].settled = "resolved"
  /\ LET endpoint == EndpointAt(calls[c].index)
         rt == RoundedElapsed(calls[c].startTime, now)
     IN  /\ minResponseTime' = UpdateMin(minResponseTime, rt)
         /\ maxResponseTime' = UpdateMax(maxResponseTime, rt)
         /\ isOnline' = TRUE
         /\ lastChecked' = Some(Date)
         /\ responseTime' = Some(rt)
         /\ successfulChecks' = successfulChecks + 1
         /\ connectionHistory' =
              addToHistory(connectionHistory, SuccessRecord(rt, endpoint.name))
  /\ totalChecks' = totalChecks + 1
  /\ isChecking' = FALSE
  /\ calls' = [calls EXCEPT ![c] = Free]
  /\ UNCHANGED << currentEndpoint, error, now, location >>

\* tryEndpoints is resumed after checkEndpoint rejected and its list has
\* an endpoint left: the catch block continues with it
TryEndpointsContinues(c) ==
  /\ calls[c].settled = "rejected"
  /\ calls[c].index < LastOfList(calls[c].index)
  /\ currentEndpoint' = Some(EndpointAt(calls[c].index + 1).name)
  /\ calls' = [calls EXCEPT ![c].index = @ + 1,
                            ![c].settled = "pending",
                            ![c].response = NoResponse]
  /\ UNCHANGED << isOnline, lastChecked, responseTime, error, isChecking,
                  totalChecks, successfulChecks, connectionHistory,
                  minResponseTime, maxResponseTime, now, location >>

\* the fallback list is tried whatever the page
TryFallback_Unconditional(c) ==
  /\ calls[c].settled = "rejected"
  /\ calls[c].index = Len(httpsEndpoints)
  /\ currentEndpoint' = Some(fallbackEndpoints[1].name)
  /\ calls' = [calls EXCEPT ![c].index = @ + 1,
                            ![c].settled = "pending",
                            ![c].response = NoResponse]
  /\ UNCHANGED << isOnline, lastChecked, responseTime, error, isChecking,
                  totalChecks, successfulChecks, connectionHistory,
                  minResponseTime, maxResponseTime, now, location >>

\* tryEndpoints(endpoints) has returned offline and shouldTryHttpFallback()
\* holds: tryEndpoints(fallbackEndpoints) suspends on the first fallback
\* endpoint
TryFallback(c) ==
  /\ calls[c].settled = "rejected"
  /\ calls[c].index = Len(httpsEndpoints)
  /\ shouldTryHttpFallback
  /\ currentEndpoint' = Some(fallbackEndpoints[1].name)
  /\ calls' = [calls EXCEPT ![c].index = @ + 1,
                            ![c].settled = "pending",
                            ![c].response = NoResponse]
  /\ UNCHANGED << isOnline, lastChecked, responseTime, error, isChecking,
                  totalChecks, successfulChecks, connectionHistory,
                  minResponseTime, maxResponseTime, now, location >>

\* the "all endpoints failed" block of that copy: the https list is
\* exhausted and the fallback is not to be tried, or the fallback list is
\* exhausted too
AllListsFailed(c) ==
  /\ calls[c].settled = "rejected"
  /\ \/ calls[c].index = Len(httpsEndpoints) /\ ~ shouldTryHttpFallback
     \/ calls[c].index = Len(httpsEndpoints) + Len(fallbackEndpoints)
  /\ isOnline' = FALSE
  /\ lastChecked' = Some(Date)
  /\ responseTime' = Null
  /\ error' = Some(AllFailedMessage)
  /\ totalChecks' = totalChecks + 1
  /\ isChecking' = FALSE
  /\ connectionHistory' = addToHistory(connectionHistory, FailureRecord)
  /\ calls' = [calls EXCEPT ![c] = Free]
  /\ UNCHANGED << currentEndpoint, successfulChecks,
                  minResponseTime, maxResponseTime, now, location >>

NextFallback ==
  \/ GuardedTick
  \/ GuardedManualCheck
  \/ \E c \in Slots, r \in Responses : SettleAttempt(c, r)
  \/ \E c \in Slots : TryEndpointsSucceeds(c)
  \/ \E c \in Slots : TryEndpointsContinues(c)
  \/ \E c \in Slots : TryFallback(c)
  \/ \E c \in Slots : AllListsFailed(c)
  \/ HostOnline
  \/ HostOffline
  \/ Advance

SpecFallback == InitFallback /\ [][NextFallback]_vars

(* ------------------------- reading a step ------------------------------ *)

\* a call of checkConnectivity() begins in this step
Started(c) == calls[c] = Free /\ calls'[c] # Free

\* a call of checkConnectivity() returns in this step
Finished(c) == calls[c] # Free /\ calls'[c] = Free

\* call c returns from its try block
ReturnsSuccess(c) == calls[c].settled = "resolved" /\ Finished(c)

\* call c returns from the "all endpoints failed" block
ReturnsFailure(c) ==
  /\ calls[c].settled = "rejected"
  /\ calls[c].index = Len(endpoints)
  /\ Finished(c)

Last(s) == s[Len(s)]

\* calls that have returned since the service was constructed
Completed == totalChecks - Cardinality(InFlight)

(* ------------------------------- claims -------------------------------- *)

\* C1: an invocation of the probe made while isChecking is true neither
\* increments totalChecks nor appends a record to the history.
C1_InvocationWhileCheckingIsAbsorbed ==
  [][(isChecking /\ \E c \in Slots : Started(c))
       => /\ totalChecks' = totalChecks
          /\ connectionHistory' = connectionHistory]_vars

\* C2: at most one probe is in flight in every reachable state.
C2_AtMostOneProbeInFlight == Cardinality(InFlight) <= 1

\* C3: isChecking is true exactly in the states in which a probe has
\* started and not yet finished.
C3_IsCheckingIffProbeInFlight == isChecking <=> (InFlight # {})

\* C4: every call is counted in totalChecks exactly once, from its start:
\* the counter equals the calls in flight plus the calls that have returned
\* (one history record each), it moves only in the step that starts a call,
\* and then by one.
C4_TotalChecksOncePerProbe ==
  [][/\ totalChecks' = Cardinality(InFlight') + Len(connectionHistory')
     /\ (\E c \in Slots : Started(c)) => totalChecks' = totalChecks + 1
     /\ (\A c \in Slots : ~ Started(c)) => totalChecks' = totalChecks]_vars

\* a probe has returned online, another offline, and none is in flight
C4_Witness ==
  /\ Len(connectionHistory) = 2
  /\ connectionHistory[1].isOnline # connectionHistory[2].isOnline
  /\ totalChecks = 2
  /\ InFlight = {}

\* C5: successfulChecks <= totalChecks in every reachable state.
C5_SuccessfulAtMostTotal == successfulChecks <= totalChecks

\* every call so far has returned online, and the last one did so while
\* nothing else was in flight
C5_Witness ==
  /\ successfulChecks = totalChecks
  /\ successfulChecks = MaxChecks
  /\ InFlight = {}

\* C6: when a probe returns with a successful attempt, isOnline is true,
\* currentEndpoint names the endpoint whose attempt succeeded, responseTime
\* is a number >= 0, successfulChecks has grown by one and one record with
\* isOnline = true and that endpoint's name has been appended.
C6_SuccessOutcome ==
  [][\A c \in Slots :
       ReturnsSuccess(c) =>
         LET name == endpoints[calls[c].index].name
         IN  /\ isOnline' = TRUE
             /\ currentEndpoint' = Some(name)
             /\ responseTime' # Null
             /\ responseTime'[1] >= 0
             /\ successfulChecks' = successfulChecks + 1
             /\ Len(connectionHistory') = Len(connectionHistory) + 1
             /\ SubSeq(connectionHistory', 1, Len(connectionHistory))
                  = connectionHistory
             /\ Last(connectionHistory').isOnline = TRUE
             /\ Last(connectionHistory').endpoint = Some(name)]_vars

\* C7: when a probe returns after every endpoint attempt has failed,
\* isOnline is false, error is the all-failed message, responseTime is
\* null, lastChecked is stamped, the check stays counted once in
\* totalChecks and not in successfulChecks, and one record with
\* isOnline = false, responseTime = null and endpoint = null is appended.
C7_TotalFailureOutcome ==
  [][\A c \in Slots :
       ReturnsFailure(c) =>
         /\ isOnline' = FALSE
         /\ error' = Some(AllFailedMessage)
         /\ responseTime' = Null
         /\ lastChecked' = Some(now' \div 2)
         /\ totalChecks' = totalChecks
         /\ Completed' = Completed + 1
         /\ successfulChecks' = successfulChecks
         /\ Len(connectionHistory') = Len(connectionHistory) + 1
         /\ SubSeq(connectionHistory', 1, Len(connectionHistory))
              = connectionHistory
         /\ Last(connectionHistory').isOnline = FALSE
         /\ Last(connectionHistory').responseTime = Null
         /\ Last(connectionHistory').endpoint = Null
         /\ Last(connectionHistory').error = Some(AllFailedMessage)]_vars

\* a probe has just returned offline after an earlier one returned online
C7_Witness ==
  /\ Len(connectionHistory) = 2
  /\ connectionHistory[1].isOnline
  /\ ~ connectionHistory[2].isOnline
  /\ responseTime = Null
  /\ error = Some(AllFailedMessage)
  /\ successfulChecks = 1
  /\ ~ isChecking

\* C8: the history never holds more than 100 records.
C8_HistoryBounded == Len(connectionHistory) <= HistoryLimit

\* more calls have returned than the history may hold
C8_Witness ==
  /\ Completed > HistoryLimit
  /\ Len(connectionHistory) = HistoryLimit

\* C9: a step in which no probe returns leaves the history alone; a step
\* in which a probe returns appends that probe's record at the end, and an
\* append to a full history drops exactly the oldest record and keeps the
\* others in place and in order.
C9_AppendOnlyFifo ==
  [][IF \E c \in Slots : Finished(c)
     THEN /\ \A c \in Slots :
               Finished(c) =>
                 Last(connectionHistory').isOnline
                   = (calls[c].settled = "resolved")
          /\ \/ /\ Len(connectionHistory) < HistoryLimit
                /\ Len(connectionHistory') = Len(connectionHistory) + 1
                /\ \A i \in 1..Len(connectionHistory) :
                     connectionHistory'[i] = connectionHistory[i]
             \/ /\ Len(connectionHistory) = HistoryLimit
                /\ Len(connectionHistory') = HistoryLimit
                /\ \A i \in 1..(HistoryLimit - 1) :
                     connectionHistory'[i] = connectionHistory[i + 1]
     ELSE connectionHistory' = connectionHistory]_vars

\* the oldest record has been evicted and the two newest records differ
C9_Witness ==
  /\ Completed = HistoryLimit + 1
  /\ Len(connectionHistory) = HistoryLimit
  /\ connectionHistory[HistoryLimit].isOnline
  /\ ~ connectionHistory[HistoryLimit - 1].isOnline
  /\ ~ connectionHistory[1].isOnline

\* C10: within one call the attempts go through the endpoint list in
\* declared order: the first attempt is the first endpoint, the next
\* endpoint is attempted only out of a failed attempt of the one before it,
\* a failed attempt is never repeated, and a successful attempt ends the
\* call.
C10_AttemptsInDeclaredOrder ==
  [][\A c \in Slots :
       /\ Started(c) =>
            calls'[c].index = 1 /\ calls'[c].settled = "pending"
       /\ calls'[c] # Free => calls'[c].index \in 1..Len(endpoints)
       /\ (calls[c] # Free /\ calls'[c] # Free /\ calls'[c] # calls[c]) =>
            \/ /\ calls[c].settled = "pending"
               /\ calls'[c].settled \in {"resolved", "rejected"}
               /\ calls'[c].index = calls[c].index
            \/ /\ calls[c].settled = "rejected"
               /\ calls'[c].settled = "pending"
               /\ calls'[c].index = calls[c].index + 1
       /\ calls[c].settled = "resolved" => calls'[c] = Free
       /\ calls[c].settled = "rejected" => calls'[c] # calls[c]
       /\ Finished(c) =>
            \/ calls[c].settled = "resolved"
            \/ calls[c].settled = "rejected"
                 /\ calls[c].index = Len(endpoints)]_vars

\* a call that went through the whole list has returned online from the
\* last endpoint
C10_Witness ==
  \E i \in 1..Len(connectionHistory) :
    connectionHistory[i].endpoint = Some(endpoints[Len(endpoints)].name)

\* the attempt of call c has ended in a timeout abort, a transport error or
\* a readable status outside the endpoint's accepted set
AttemptFailed(c) ==
  \/ calls[c].response.kind \in {"abort", "error"}
  \/ /\ calls[c].response.kind = "basic"
     /\ calls[c].response.status
          \notin endpoints[calls[c].index].expectedStatus

\* C11: a failed attempt of an endpoint that is not the last one only moves
\* the call to the next endpoint: isOnline, error, lastChecked, responseTime
\* and the history stay as they are; the error message is published, and a
\* failure record appended, only by a call whose attempt of the last
\* endpoint has failed.
C11_EndpointFailureIsLocal ==
  [][/\ \A c \in Slots :
          (AttemptFailed(c) /\ calls[c].index < Len(endpoints)) =>
            /\ calls'[c].index = calls[c].index + 1
            /\ calls'[c].settled = "pending"
            /\ isOnline' = isOnline
            /\ error' = error
            /\ lastChecked' = lastChecked
            /\ responseTime' = responseTime
            /\ connectionHistory' = connectionHistory
     /\ (error' = Some(AllFailedMessage) /\ error' # error) =>
          \E c \in Slots :
            AttemptFailed(c) /\ calls[c].index = Len(endpoints) /\ Finished(c)
     /\ (connectionHistory' # connectionHistory
           /\ ~ Last(connectionHistory').isOnline) =>
          \E c \in Slots :
            AttemptFailed(c) /\ calls[c].index = Len(endpoints)
              /\ Finished(c)]_vars

\* the only probe so far lost its first endpoint and returned online from
\* the second, and no error was published
C11_Witness ==
  /\ totalChecks = 1
  /\ Len(connectionHistory) = 1
  /\ connectionHistory[1].endpoint = Some(endpoints[2].name)
  /\ isOnline
  /\ error = Null

\* response times of the successful records the history holds
WindowTimes ==
  { connectionHistory[i].responseTime[1] :
      i \in { j \in 1..Len(connectionHistory) :
                connectionHistory[j].isOnline } }

\* Response times of every successful call made so far.  From the cold
\* start no record has been evicted, so these are the window's; from the
\* warm start the one earlier success took WarmResponseTime, and the calls
\* explored evict only records of the start state.
LifetimeTimes ==
  IF totalChecks >= WarmChecks
    THEN WindowTimes \cup {WarmResponseTime}
    ELSE WindowTimes

\* C13: minResponseTime and maxResponseTime are the least and the greatest
\* response time over every successful call since construction, whether or
\* not its record is still in the history, and are null while there has
\* been none.
C13_LifetimeExtrema ==
  IF LifetimeTimes = {}
    THEN minResponseTime = Null /\ maxResponseTime = Null
    ELSE /\ minResponseTime # Null
         /\ maxResponseTime # Null
         /\ minResponseTime[1] \in LifetimeTimes
         /\ maxResponseTime[1] \in LifetimeTimes
         /\ \A t \in LifetimeTimes :
              minResponseTime[1] <= t /\ t <= maxResponseTime[1]

\* the record of the slowest call has been evicted, a faster call has
\* succeeded since, and the maximum is still the evicted call's time
C13_Witness ==
  /\ Len(connectionHistory) = HistoryLimit
  /\ WindowTimes # {}
  /\ WarmResponseTime \notin WindowTimes
  /\ maxResponseTime = Some(WarmResponseTime)
  /\ minResponseTime # Null
  /\ minResponseTime[1] < WarmResponseTime


\* the records of the history with isOnline = true
SuccessfulRecords == SelectSeq(connectionHistory, LAMBDA r : r.isOnline)

\* C14: averageResponseTime is the rounded mean of responseTime over all
\* the history's records with isOnline = true, a record of 0 ms counting
\* like any other, and 0 when the history holds no such record.
C14_AverageOverAllSuccesses ==
  averageResponseTime =
    IF Len(SuccessfulRecords) = 0 THEN 0
    ELSE RoundedQuotient(SumResponseTime(SuccessfulRecords),
                         Len(SuccessfulRecords))


\* C15: uptimePercentage and successRate have the same value in every
\* reachable state.
C15_UptimeEqualsSuccessRate == uptimePercentage = successRate

\* one of two calls has returned online: both signals read 50
C15_Witness ==
  /\ totalChecks = 2
  /\ successfulChecks = 1
  /\ InFlight = {}
  /\ uptimePercentage = 50
  /\ successRate = 50

\* C16: uptimePercentage is 100 * successfulChecks / totalChecks of the
\* current counters rounded to the nearest integer, a half rounded up, and
\* 0 while totalChecks is 0.
C16_UptimeIsRoundedRatio ==
  IF totalChecks = 0 THEN uptimePercentage = 0
  ELSE /\ 200 * successfulChecks - totalChecks
            < 2 * uptimePercentage * totalChecks
       /\ 2 * uptimePercentage * totalChecks
            <= 200 * successfulChecks + totalChecks


\* C17: a host online or offline event can be delivered whenever the event
\* loop takes a task, also while a call is in flight, and the step that
\* delivers it (no call moves, no time passes) writes nothing but
\* isOnline: the history, both counters, the extrema, lastChecked,
\* responseTime, error, currentEndpoint and isChecking stay as they are.
C17_HostEventOnlySetsIsOnline ==
  [][/\ Quiet => (ENABLED HostOnline /\ ENABLED HostOffline)
     /\ (calls' = calls /\ now' = now) =>
          /\ connectionHistory' = connectionHistory
          /\ totalChecks' = totalChecks
          /\ successfulChecks' = successfulChecks
          /\ minResponseTime' = minResponseTime
          /\ maxResponseTime' = maxResponseTime
          /\ lastChecked' = lastChecked
          /\ responseTime' = responseTime
          /\ error' = error
          /\ currentEndpoint' = currentEndpoint
          /\ isChecking' = isChecking]_vars

\* the host has gone offline after the first call returned online, and a
\* second call is at its second endpoint: the first call's results are
\* still published
C17_Witness ==
  /\ ~ isOnline
  /\ Len(connectionHistory) = 1
  /\ connectionHistory[1].isOnline
  /\ responseTime = connectionHistory[1].responseTime
  /\ lastChecked = Some(connectionHistory[1].timestamp)
  /\ \E c \in Slots : calls[c].index = 2 /\ calls[c].settled = "pending"
  /\ isChecking


\* C18: an invocation made while a call is in flight changes none of the
\* signals: isOnline, lastChecked, responseTime, currentEndpoint, error,
\* isChecking, both counters, the extrema and the history.
C18_InvocationInFlightAltersNothing ==
  [][(InFlight # {} /\ \E c \in Slots : Started(c))
       => UNCHANGED signals]_vars

\* C19: while a call is in flight no step starts an endpoint attempt of
\* another call, and a call that stays in flight keeps its start time and
\* never goes back to an earlier endpoint.
C19_TickInFlightIsDropped ==
  [][\A c \in Slots :
       calls[c] # Free =>
         /\ \A d \in Slots : ~ Started(d)
         /\ calls'[c] # Free =>
              /\ calls'[c].startTime = calls[c].startTime
              /\ calls'[c].index >= calls[c].index]_vars


AtFallback(call) == call # Free /\ call.index > Len(httpsEndpoints)

\* C12: in the service with a fallback list, a call reaches the fallback
\* list only out of a failed attempt of the last https endpoint, which it
\* reached through a failed attempt of every https endpoint before it, and
\* only on a page for which the fallback policy holds; on any other page
\* no call is ever at a fallback endpoint, and the call whose https list
\* is exhausted returns in its next step without another attempt.
C12_FallbackOnlyAfterPrimaryAndPolicy ==
  [][\A c \in Slots :
       /\ Started(c) => calls'[c].index = 1
       /\ (calls[c] # Free /\ calls'[c] # Free
             /\ calls'[c].index # calls[c].index) =>
            /\ calls[c].settled = "rejected"
            /\ calls'[c].index = calls[c].index + 1
       /\ (AtFallback(calls'[c]) /\ ~ AtFallback(calls[c])) =>
            /\ calls[c].index = Len(httpsEndpoints)
            /\ calls[c].settled = "rejected"
            /\ location.protocol = "http:" \/ location.hostname = "localhost"
       /\ ~ (location.protocol = "http:" \/ location.hostname = "localhost") =>
            /\ ~ AtFallback(calls'[c])
            /\ (calls[c].index = Len(httpsEndpoints)
                  /\ calls[c].settled = "rejected") => Finished(c)]_vars

\* on an https page served from localhost every https endpoint failed and
\* the first fallback endpoint answered
C12_Witness ==
  /\ location = [protocol |-> "https:", hostname |-> "localhost"]
  /\ connectionHistory # << >>
  /\ Last(connectionHistory).endpoint = Some(fallbackEndpoints[1].name)
  /\ isOnline
  /\ ~ isChecking


Consistent(r) ==
  /\ r.isOnline <=> r.responseTime # Null
  /\ r.isOnline <=> r.endpoint # Null
  /\ ~ r.isOnline => r.error = Some(AllFailedMessage)

\* C22: in every record of the history and in every status a call returns,
\* responseTime is non-null exactly when isOnline is true and endpoint is
\* non-null exactly when isOnline is true; with isOnline false both are
\* null and the error is the all-failed message.
C22_RecordsAreConsistent ==
  [][/\ \A i \in 1..Len(connectionHistory') :
          Consistent(connectionHistory'[i])
     /\ \A c \in Slots :
          /\ ReturnsSuccess(c) =>
               /\ Consistent(SuccessStatus(
                               RoundedElapsed(calls[c].startTime, now'),
                               endpoints[calls[c].index].name))
               /\ Last(connectionHistory').isOnline
          /\ ReturnsFailure(c) =>
               /\ Consistent(FailureStatus')
               /\ ~ Last(connectionHistory').isOnline]_vars

\* the history holds an offline record and, after it, an online record
\* whose response time is the number 0
C22_Witness ==
  /\ Len(connectionHistory) = 2
  /\ ~ connectionHistory[1].isOnline
  /\ connectionHistory[2].isOnline
  /\ connectionHistory[2].responseTime = Some(0)
  /\ connectionHistory[2].endpoint # Null


\* the awaited promise of call c settles in this step
AttemptSettles(c) ==
  calls[c].settled = "pending" /\ calls'[c].settled # "pending"

\* C23: an endpoint attempt is a success exactly when fetch produced a
\* response (no error was thrown, the timeout did not abort it) and the
\* response is opaque or its status is one of the endpoint's accepted
\* statuses; a readable status outside the set, a transport error and an
\* abort by the timeout are each a failure.
C23_AttemptSuccessCriterion ==
  [][\A c \in Slots :
       AttemptSettles(c) =>
         LET r == calls'[c].response
             accepted == endpoints[calls[c].index].expectedStatus
             responded == r.kind \in {"opaque", "basic"}
         IN  /\ r \in Responses
             /\ calls'[c].settled \in {"resolved", "rejected"}
             /\ calls'[c].settled = "resolved"
                  <=> /\ responded
                      /\ r.kind = "opaque" \/ r.status \in accepted
             /\ r.kind = "basic" /\ r.status \notin accepted
                  => calls'[c].settled = "rejected"
             /\ r.kind \in {"error", "abort"}
                  => calls'[c].settled = "rejected"]_vars

\* the last endpoint, which accepts 200 only, answered with a readable 204,
\* a status the other endpoints accept, and its attempt failed
C23_Witness ==
  \E c \in Slots :
    /\ calls[c].index = Len(endpoints)
    /\ calls[c].response = [kind |-> "basic", status |-> 204]
    /\ 204 \in endpoints[1].expectedStatus
    /\ calls[c].settled = "rejected"


\* C24: getRecentHistory() returns the last 10 records of the history, all
\* of them when there are fewer, the most recent first, and leaves the
\* history as it was.
C24_RecentHistory ==
  LET recent == getRecentHistory.returned
      n == Len(connectionHistory)
  IN  /\ Len(recent) = IF n < 10 THEN n ELSE 10
      /\ \A i \in 1..Len(recent) : recent[i] = connectionHistory[n - i + 1]
      /\ getRecentHistory.history = connectionHistory

\* the history is full, its last record is online and the one before it
\* offline: the accessor returns 10 of the 100 records, those two first
C24_Witness ==
  /\ Len(connectionHistory) = HistoryLimit
  /\ Len(getRecentHistory.returned) = RecentLimit
  /\ getRecentHistory.returned[1].isOnline
  /\ ~ getRecentHistory.returned[2].isOnline
  /\ getRecentHistory.returned[1] = Last(connectionHistory)


\* C25: from construction until the first call of checkConnectivity() is
\* made, isOnline is the online flag the host reports (either value),
\* isChecking is false, lastChecked, responseTime, currentEndpoint, error,
\* minResponseTime and maxResponseTime are null, both counters are 0 and
\* the history is empty.
C25_InitialState ==
  totalChecks = 0 =>
    /\ isOnline \in BOOLEAN
    /\ isChecking = FALSE
    /\ lastChecked = Null
    /\ responseTime = Null
    /\ currentEndpoint = Null
    /\ error = Null
    /\ minResponseTime = Null
    /\ maxResponseTime = Null
    /\ successfulChecks = 0
    /\ connectionHistory = << >>
    /\ InFlight = {}

\* the service was constructed while the host reported offline, and the
\* first tick has not run yet
C25_Witness ==
  /\ totalChecks = 0
  /\ now = 0
  /\ isOnline = FALSE
  /\ ENABLED Tick


\* call c begins an attempt in this step: it starts, or moves on to its
\* next endpoint
AttemptBegins(c) ==
  /\ calls'[c] # Free
  /\ calls'[c].index # calls[c].index

\* C26: the endpoint list is fixed.  getEndpoints() returns a non-empty
\* list whose names are pairwise different and whose elements each have a
\* url, a non-empty set of accepted statuses and a positive timeout; no
\* step changes what it returns; and it is the list the calls iterate:
\* every attempt is made at an element of it, whose name is published.
C26_EndpointListIsFixed ==
  [][/\ Len(getEndpoints) > 0
     /\ \A i, j \in 1..Len(getEndpoints) :
          getEndpoints[i].name = getEndpoints[j].name => i = j
     /\ \A i \in 1..Len(getEndpoints) :
          /\ getEndpoints[i].url.address # ""
          /\ getEndpoints[i].expectedStatus # {}
          /\ getEndpoints[i].timeout > 0
     /\ getEndpoints' = getEndpoints
     /\ \A c \in Slots :
          AttemptBegins(c) =>
            /\ calls'[c].index \in 1..Len(getEndpoints)
            /\ currentEndpoint' = Some(getEndpoints[calls'[c].index].name)
     /\ \A c \in Slots :
          AttemptSettles(c) =>
            (calls'[c].settled = "resolved"
               <=> \/ calls'[c].response.kind = "opaque"
                   \/ /\ calls'[c].response.kind = "basic"
                      /\ calls'[c].response.status
                           \in getEndpoints[calls[c].index].expectedStatus)]_vars

\* the first call has worked through the list and waits for the answer of
\* its last element, whose name is published
C26_Witness ==
  \E c \in Slots :
    /\ calls[c].index = Len(getEndpoints)
    /\ calls[c].settled = "pending"
    /\ currentEndpoint = Some(getEndpoints[Len(getEndpoints)].name)
    /\ Len(getEndpoints) = 4
    /\ isOnline
    /\ connectionHistory = << >>


\* C27: the response time of a call that returns online is the time from
\* the start of the call to the successful response, in whole
\* milliseconds: the clock of a call is read when the call starts, no
\* failed attempt restarts it, time does not run backwards, and the
\* published and recorded responseTime is the elapsed time rounded to the
\* nearest millisecond.  The attempts of a call follow one another without
\* a gap, so the failed attempts before the successful one are included.
C27_ResponseTimeSpansWholeProbe ==
  [][/\ now' >= now
     /\ \A c \in Slots :
          /\ Started(c) => calls'[c].startTime = now
          /\ (calls[c] # Free /\ calls'[c] # Free)
               => calls'[c].startTime = calls[c].startTime
          /\ (calls[c].settled = "rejected" /\ calls'[c] # Free)
               => /\ calls'[c].settled = "pending"
                  /\ calls'[c].index = calls[c].index + 1
                  /\ now' = now
          /\ ReturnsSuccess(c) =>
               LET elapsed == now - calls[c].startTime
               IN  /\ responseTime' # Null
                   /\ 2 * responseTime'[1] \in {elapsed, elapsed + 1}
                   /\ Last(connectionHistory').responseTime
                        = responseTime']_vars

\* a call that started at instant 0 has returned online at instant 2 from
\* the second endpoint: its response time of 1 ms includes the failed
\* attempt at the first
C27_Witness ==
  /\ now = 2
  /\ InFlight = {}
  /\ totalChecks = 1
  /\ responseTime = Some(1)
  /\ Last(connectionHistory).endpoint = Some(endpoints[2].name)
  /\ Last(connectionHistory).responseTime = Some(1)


\* C30: in the state in which a call returns online, the published error
\* is null.
C30_SuccessClearsError ==
  [][\A c \in Slots : ReturnsSuccess(c) => error' = Null]_vars


\* C28: every call that starts returns, and isChecking, once true, becomes
\* false again, provided every attempt is answered or aborted.
C28_ProbeTerminates ==
  /\ \A c \in Slots : (calls[c] # Free) ~> (calls[c] = Free)
  /\ isChecking ~> ~ isChecking

\* a call whose attempts all failed has returned by the last instant of
\* the clock, and isChecking is false
C28_Witness ==
  /\ InFlight = {}
  /\ ~ isChecking
  /\ totalChecks = 1
  /\ Len(connectionHistory) = 1
  /\ ~ connectionHistory[1].isOnline
  /\ now = MaxTime


\* the attempt of some call at endpoint k has failed although the last call
\* of the exploration has been started
FailsLate(k) ==
  \E c \in Slots :
    /\ ~ WithinBounds
    /\ calls[c].index = k
    /\ calls[c].settled = "rejected"

\* a call has returned online and its record is in the history
Recovered ==
  /\ successfulChecks > 0
  /\ \E i \in 1..Len(connectionHistory) : connectionHistory[i].isOnline

\* C29: whichever endpoint it is whose attempts succeed from some point
\* on, if ticks keep firing after that point then eventually a call
\* returns online and an online record is appended, whatever calls failed
\* before.  (The point is taken no later than the start of the last call
\* the exploration makes, so that a tick is left to fire after it.)
C29_EventuallyOnline ==
  \A k \in 1..Len(endpoints) : ([] ~ FailsLate(k)) => <> Recovered

\* the first call returned offline; the call made after it has returned
\* online with no error published
C29_Witness ==
  /\ Len(connectionHistory) = 2
  /\ ~ connectionHistory[1].isOnline
  /\ connectionHistory[2].isOnline
  /\ isOnline
  /\ error = Null
  /\ successfulChecks = 1
  /\ InFlight = {}


\* C31: totalChecks and successfulChecks never decrease, and a step moves
\* each of them by at most 1; nothing resets them.
C31_CountersMonotone ==
  [][/\ totalChecks' \in {totalChecks, totalChecks + 1}
     /\ successfulChecks' \in {successfulChecks, successfulChecks + 1}]_vars

\* a call returned online and another has returned offline after it: the
\* count of successes is still 1
C31_Witness ==
  /\ totalChecks = 2
  /\ successfulChecks = 1
  /\ InFlight = {}
  /\ ~ Last(connectionHistory).isOnline
  /\ now = 1


\* online records the history holds
OnlineRecords(history) ==
  { i \in 1..Len(history) : history[i].isOnline }

\* C32: a record is appended exactly when a call returns, one per call, and
\* successfulChecks grows exactly with the online ones; so whenever no call
\* is in flight, totalChecks is the number of records appended since the
\* service started and successfulChecks the number of online ones among
\* them, and while no record has been evicted (at most 100 calls have
\* returned) these are the length of the history and the number of its
\* online records.
C32_CountersMatchRecords ==
  [][/\ (\E c \in Slots : Finished(c))
          => /\ Completed' = Completed + 1
             /\ Last(connectionHistory').timestamp = now' \div 2
             /\ successfulChecks' - successfulChecks
                  = IF Last(connectionHistory').isOnline THEN 1 ELSE 0
     /\ (\A c \in Slots : ~ Finished(c))
          => /\ Completed' = Completed
             /\ connectionHistory' = connectionHistory
             /\ successfulChecks' = successfulChecks
     /\ (InFlight' = {} /\ totalChecks' <= HistoryLimit)
          => /\ totalChecks' = Len(connectionHistory')
             /\ successfulChecks'
                  = Cardinality(OnlineRecords(connectionHistory'))]_vars

\* the hundredth call has returned, online like the first, and none is in
\* flight: both counters agree with the full history
C32_Witness ==
  /\ InFlight = {}
  /\ totalChecks = HistoryLimit
  /\ Len(connectionHistory) = HistoryLimit
  /\ successfulChecks = 2
  /\ OnlineRecords(connectionHistory) = {1, HistoryLimit}


\* C33: uptimePercentage and successRate are integers from 0 to 100 in
\* every reachable state, the states with a call in flight included.
C33_PercentagesInRange ==
  /\ uptimePercentage \in 0..100
  /\ successRate \in 0..100

\* the fortieth call is in flight after 22 calls returned online: both
\* signals read 55
C33_Witness ==
  /\ InFlight # {}
  /\ totalChecks = MidwayChecks + 1
  /\ successfulChecks = MidwaySuccessful
  /\ uptimePercentage = 55
  /\ successRate = 55


\* the extrema are null together with successfulChecks = 0, and otherwise
\* enclose the response time of every online record of the history
ExtremaEnclose ==
  /\ minResponseTime = Null <=> successfulChecks = 0
  /\ maxResponseTime = Null <=> successfulChecks = 0
  /\ successfulChecks > 0 =>
       /\ minResponseTime[1] <= maxResponseTime[1]
       /\ \A i \in OnlineRecords(connectionHistory) :
            /\ minResponseTime[1] <= connectionHistory[i].responseTime[1]
            /\ connectionHistory[i].responseTime[1] <= maxResponseTime[1]

\* C34: minResponseTime and maxResponseTime are both null exactly when
\* successfulChecks is 0; otherwise both are numbers, the minimum is at
\* most the maximum and the response time of every online record of the
\* history lies between them.  A call that returns offline changes neither.
C34_ExtremaConsistent ==
  [][/\ ExtremaEnclose
     /\ ExtremaEnclose'
     /\ \A c \in Slots :
          ReturnsFailure(c) =>
            /\ minResponseTime' = minResponseTime
            /\ maxResponseTime' = maxResponseTime]_vars

\* two calls have returned online, after 0 ms and after 1 ms
C34_Witness ==
  /\ InFlight = {}
  /\ successfulChecks = 2
  /\ minResponseTime = Some(0)
  /\ maxResponseTime = Some(1)
  /\ connectionHistory[1].responseTime = Some(0)
  /\ connectionHistory[2].responseTime = Some(1)


\* C35: whenever no call is in flight and the published error is the
\* all-failed message, the published isOnline is false.
C35_NeverOnlineWithAllFailedError ==
  (InFlight = {} /\ error = Some(AllFailedMessage)) => ~ isOnline


\* C36: whenever no call is in flight and a call has returned, the
\* published currentEndpoint is the endpoint of the newest record of the
\* history: the name of the endpoint that answered, or null when none did.
C36_CurrentEndpointIsNewestRecords ==
  (InFlight = {} /\ Len(connectionHistory) > 0)
    => currentEndpoint = Last(connectionHistory).endpoint


\* the published isOnline and responseTime are those of the newest record
\* of the history, and lastChecked is stamped
PublishedIsNewestRecord ==
  /\ Len(connectionHistory) > 0
  /\ isOnline = Last(connectionHistory).isOnline
  /\ responseTime = Last(connectionHistory).responseTime
  /\ lastChecked # Null

\* C37: whenever no call is in flight, a call has returned and no host
\* online/offline event has come since the last return, the published
\* isOnline and responseTime are those of the newest record of the history
\* and lastChecked is non-null: this holds when a return leaves no call in
\* flight, and every later step that starts no call and is not a host
\* event keeps it.
C37_PublishedMatchesNewestRecord ==
  [][/\ ((\E c \in Slots : Finished(c)) /\ InFlight' = {})
          => PublishedIsNewestRecord'
     /\ (/\ InFlight = {}
         /\ InFlight' = {}
         /\ PublishedIsNewestRecord
         /\ isOnline' = isOnline)
          => PublishedIsNewestRecord']_vars

\* a call returned online after 1 ms, and time has passed since with no
\* call in flight
C37_Witness ==
  /\ InFlight = {}
  /\ totalChecks = 1
  /\ PublishedIsNewestRecord
  /\ isOnline
  /\ responseTime = Some(1)
  /\ lastChecked = Some(0)
  /\ now = 2


\* the protocol and port that go with the scheme of a url
InfoOfScheme(scheme) ==
  IF scheme = "https" THEN [protocol |-> "HTTPS", port |-> "443"]
  ELSE [protocol |-> "HTTP", port |-> "80"]

\* C38: getCurrentEndpointInfo() returns protocol N/A and port N/A when
\* currentEndpoint is null; otherwise the protocol and port that go with
\* the scheme of the url of the endpoint currentEndpoint names: HTTPS and
\* 443 for https, HTTP and 80 for http.
C38_EndpointInfoMatchesScheme ==
  IF currentEndpoint = Null
    THEN getCurrentEndpointInfo = [protocol |-> "N/A", port |-> "N/A"]
    ELSE \A i \in 1..Len(endpoints) :
           endpoints[i].name = currentEndpoint[1] =>
             getCurrentEndpointInfo = InfoOfScheme(endpoints[i].url.scheme)

=============================================================================
